---- MODULE Spec2Model ----
(***************************************************************************)
(* Sketch & Guess: the browser clients (GameLobby, GameBoard, ChatPanel)   *)
(* and the hosted database they read and write.  Every database call is    *)
(* one atomic step at the server; a handler is a chain of such steps, and  *)
(* the steps of different handlers interleave at every await.  A handler   *)
(* reads the React state of the render that created it, so a running       *)
(* handler carries the values it captured when it was invoked.             *)
(***************************************************************************)
EXTENDS Integers, Sequences, FiniteSets, Bags, TLC

\* ---------------------------------------------------------------- bounds
\* max_rounds and time_per_round are columns of game_rooms; createRoom
\* inserts 5 and 60.  The model scales both down.
MaxRounds == 3
TimePerRound == 1
\* handlers a client has in flight at once
MaxTasks == 2
\* change notifications waiting at one client
MaxInbox == 2
\* rows of the guesses table
MaxGuesses == 2
\* points the drawer puts on the canvas
MaxPoints == 2
\* rows of the guesses table in SpecScore
MaxScoreGuesses == 3

Clients == {"c1", "c2"}
\* the client that creates the (single) room; the others join it
Creators == {"c1"}
\* the builds of GameBoard.tsx: v1 renders <ChatPanel>, v3 has its own
\* guess box, countdown and round-end handler; a third build, v2, draws on
\* a canvas of its own and is the build of SpecDraw
Builds == {"v1", "v3"}

\* points of a correct guess
Bonus == 10

\* null: an id, a word, a room row, a player
None == "none"
NoWord == <<>>
NoRoom == [exists |-> FALSE, host_id |-> None, current_player_id |-> None,
           current_word |-> NoWord, round_number |-> 0, max_rounds |-> 0,
           time_per_round |-> 0, is_active |-> FALSE]
NoPlayer == [id |-> None, is_host |-> FALSE]
Idle == [op |-> "idle"]

\* ---------------------------------------------------------------- text
\* A string is a sequence of characters.
Cat == <<"C", "a", "t">>
Dog == <<"D", "o", "g">>
cat == <<"c", "a", "t">>
\* src/data/gameWords.ts GAME_WORDS (two of its words)
GAME_WORDS == {Cat, Dog}
\* the literal list inside startGame (two of its words)
LobbyWords == {Cat, Dog}
\* what a player types into the guess box
GuessTexts == { <<" ", "c", "A", "T", " ">>, <<"d", "o", "g">>, <<" ">> }

toLowerCase(s) ==
    [i \in 1..Len(s) |->
        CASE s[i] = "C" -> "c"
          [] s[i] = "A" -> "a"
          [] s[i] = "T" -> "t"
          [] s[i] = "D" -> "d"
          [] s[i] = "O" -> "o"
          [] s[i] = "G" -> "g"
          [] OTHER -> s[i]]

RECURSIVE trimStart(_)
trimStart(s) == IF s # <<>> /\ Head(s) = " " THEN trimStart(Tail(s)) ELSE s

RECURSIVE trimEnd(_)
trimEnd(s) ==
    IF s # <<>> /\ s[Len(s)] = " " THEN trimEnd(SubSeq(s, 1, Len(s) - 1)) ELSE s

trim(s) == trimEnd(trimStart(s))

\* GameBoard v3: currentGuess.toLowerCase().trim() === room?.current_word?.toLowerCase()
isCorrectBoard(text, word) ==
    word # NoWord /\ trim(toLowerCase(text)) = toLowerCase(word)

\* ChatPanel: currentWord && newGuess.toLowerCase().trim() === currentWord.toLowerCase().trim()
isCorrectChat(text, word) ==
    word # NoWord /\ trim(toLowerCase(text)) = trim(toLowerCase(word))

\* ---------------------------------------------------------------- state
VARIABLES
    build,      \* which GameBoard build the clients run
    room,       \* the game_rooms row, NoRoom before createRoom
    players,    \* the players table, in created_at order
    guesses,    \* the guesses table, in created_at order
    ended,      \* history: <<round seen by the handler, trigger>> of every committed round-end write
    screen,     \* App.gameState of each client
    inRoom,     \* GameLobby: currentRoom is set
    me,         \* GameLobby: currentPlayer
    lplayers,   \* GameLobby: players
    ldirty,     \* GameLobby: a change notification asks for fetchPlayersForRoom
    lfetch,     \* GameLobby: the answer of a fetchPlayersForRoom in flight, <<>> or <<rows>>
    ltask,      \* GameLobby: createRoom / joinRoom / startGame in flight
    toast,      \* the last toast.error shown
    lroom,      \* GameBoard: room
    bplayers,   \* GameBoard: players
    timeLeft,   \* GameBoard: timeLeft
    isCurrentPlayer, \* GameBoard: isCurrentPlayer (v1: isCurrentPlayerDrawing)
    gamePhase,  \* GameBoard v1: gamePhase
    tasks,      \* GameBoard: handlers in flight (a bag)
    inbox,      \* GameBoard: change notifications not yet delivered
    strokes,    \* the draw_strokes table, in insertion order
    canvas,     \* GameBoard v2: the path operations its canvas shows
    isDrawing,  \* GameBoard v2: isDrawing (the mouse button is down)
    ops,        \* history: every path operation the drawing client performed
    vinbox,     \* INSERTs of draw_strokes on their way to a viewer's drawingChannel
    vcanvas     \* the path operations drawFromStroke performed on the viewer's canvas

dbVars == <<room, players, guesses, ended>>
lobbyVars == <<inRoom, me, lplayers, ldirty, lfetch, ltask>>
boardVars == <<lroom, bplayers, timeLeft, isCurrentPlayer, gamePhase, tasks, inbox>>
canvasVars == <<canvas, isDrawing, ops, vinbox, vcanvas>>
drawVars == <<strokes, canvasVars>>
vars == <<build, room, players, guesses, ended, screen, inRoom, me, lplayers,
          ldirty, lfetch, ltask, toast, lroom, bplayers, timeLeft,
          isCurrentPlayer, gamePhase, tasks, inbox, strokes, canvas,
          isDrawing, ops, vinbox, vcanvas>>

\* no stroke stored, nothing drawn
InitCanvas ==
    /\ strokes = <<>>
    /\ canvas = [c \in Clients |-> <<>>]
    /\ isDrawing = [c \in Clients |-> FALSE]
    /\ ops = <<>>
    /\ vinbox = <<>>
    /\ vcanvas = <<>>

Init ==
    /\ build \in Builds
    /\ room = NoRoom
    /\ players = <<>>
    /\ guesses = <<>>
    /\ ended = {}
    /\ screen = [c \in Clients |-> "lobby"]
    /\ inRoom = [c \in Clients |-> FALSE]
    /\ me = [c \in Clients |-> NoPlayer]
    /\ lplayers = [c \in Clients |-> <<>>]
    /\ ldirty = [c \in Clients |-> FALSE]
    /\ lfetch = [c \in Clients |-> <<>>]
    /\ ltask = [c \in Clients |-> Idle]
    /\ toast = [c \in Clients |-> None]
    /\ lroom = [c \in Clients |-> NoRoom]
    /\ bplayers = [c \in Clients |-> <<>>]
    /\ timeLeft = [c \in Clients |-> TimePerRound]
    /\ isCurrentPlayer = [c \in Clients |-> FALSE]
    /\ gamePhase = [c \in Clients |-> "waiting"]
    /\ tasks = [c \in Clients |-> EmptyBag]
    /\ inbox = [c \in Clients |-> <<>>]
    /\ InitCanvas

\* ---------------------------------------------------------------- helpers
Range(s) == {s[i] : i \in 1..Len(s)}

\* players.findIndex(p => p.id === id) + 1: the place of the first row with
\* that id, 0 if none
IndexOfId(ps, id) ==
    IF \E i \in 1..Len(ps) : ps[i].id = id
    THEN CHOOSE i \in 1..Len(ps) : ps[i].id = id /\ \A j \in 1..(i - 1) : ps[j].id # id
    ELSE 0

\* the orders  .order('score', { ascending: false })  may return: any
\* arrangement of the rows with scores not increasing
ByScore(rows) ==
    {s \in [1..Len(rows) -> Range(rows)] :
        /\ \A i, j \in 1..Len(rows) : i # j => s[i] # s[j]
        /\ \A i \in 1..(Len(rows) - 1) : s[i].score >= s[i + 1].score}

\* the lobby clients whose subscription sees a change of the room or its players
Notified(d) == [c \in Clients |-> d[c] \/ (screen[c] = "lobby" /\ inRoom[c])]

\* a notification queued for every mounted GameBoard
Broadcast(q, msg) ==
    [c \in Clients |-> IF screen[c] = "playing" THEN Append(q[c], msg) ELSE q[c]]

\* room for one more notification at every mounted GameBoard
InboxFree == \A c \in Clients : screen[c] = "playing" => Len(inbox[c]) < MaxInbox

NTasks(c) == BagCardinality(tasks[c])
AddTask(b, t) == b (+) SetToBag({t})
DelTask(b, t) == b (-) SetToBag({t})
Tasks(c) == BagToSet(tasks[c])

\* notifications: the room row of an UPDATE of game_rooms, or a change of
\* players / an INSERT into guesses (both only ask for fetchGameData)
RoomMsg(r) == [type |-> "room", new |-> r]
RefetchMsg == [type |-> "refetch"]

\* fetchGameData as it starts
FetchTask == [op |-> "fetch", pc |-> "readRoom"]

\* ---------------------------------------------------------------- GameLobby
\* createRoom, first await: insert into game_rooms
createRoom(c) ==
    /\ c \in Creators
    /\ screen[c] = "lobby" /\ ~inRoom[c] /\ ltask[c] = Idle
    /\ ~room.exists
    /\ room' = [exists |-> TRUE, host_id |-> "uuid", current_player_id |-> None,
                current_word |-> NoWord, round_number |-> 1,
                max_rounds |-> MaxRounds, time_per_round |-> TimePerRound,
                is_active |-> TRUE]
    /\ ltask' = [ltask EXCEPT ![c] = [op |-> "create"]]
    /\ UNCHANGED <<build, drawVars, players, guesses, ended, screen, inRoom, me, lplayers,
                   ldirty, lfetch, toast, boardVars>>

\* createRoom, second await: insert the host into players, then setCurrentRoom
createRoomPlayer(c) ==
    /\ ltask[c].op = "create"
    /\ InboxFree
    /\ players' = Append(players, [id |-> c, is_host |-> TRUE, score |-> 0,
                                   is_online |-> TRUE])
    /\ inRoom' = [inRoom EXCEPT ![c] = TRUE]
    /\ me' = [me EXCEPT ![c] = [id |-> c, is_host |-> TRUE]]
    /\ ldirty' = [Notified(ldirty) EXCEPT ![c] = TRUE]
    /\ inbox' = Broadcast(inbox, RefetchMsg)
    /\ ltask' = [ltask EXCEPT ![c] = Idle]
    /\ UNCHANGED <<build, drawVars, room, guesses, ended, screen, lplayers, lfetch, toast,
                   lroom, bplayers, timeLeft, isCurrentPlayer, gamePhase, tasks>>

\* joinRoom, first await: select the room by id where is_active
joinRoom(c) ==
    /\ screen[c] = "lobby" /\ ~inRoom[c] /\ ltask[c] = Idle
    /\ IF room.exists /\ room.is_active
       THEN /\ ltask' = [ltask EXCEPT ![c] = [op |-> "join"]]
            /\ UNCHANGED toast
       ELSE /\ toast' = [toast EXCEPT ![c] = "Failed to join room"]
            /\ UNCHANGED ltask
    /\ UNCHANGED <<build, drawVars, dbVars, screen, inRoom, me, lplayers, ldirty, lfetch,
                   boardVars>>

\* joinRoom, second await: insert the player, then setCurrentRoom
joinRoomPlayer(c) ==
    /\ ltask[c].op = "join"
    /\ InboxFree
    /\ players' = Append(players, [id |-> c, is_host |-> FALSE, score |-> 0,
                                   is_online |-> TRUE])
    /\ inRoom' = [inRoom EXCEPT ![c] = TRUE]
    /\ me' = [me EXCEPT ![c] = [id |-> c, is_host |-> FALSE]]
    /\ ldirty' = [Notified(ldirty) EXCEPT ![c] = TRUE]
    /\ inbox' = Broadcast(inbox, RefetchMsg)
    /\ ltask' = [ltask EXCEPT ![c] = Idle]
    /\ UNCHANGED <<build, drawVars, room, guesses, ended, screen, lplayers, lfetch, toast,
                   lroom, bplayers, timeLeft, isCurrentPlayer, gamePhase, tasks>>

\* fetchPlayersForRoom: the select, ordered by created_at
fetchPlayersForRoom(c) ==
    /\ screen[c] = "lobby" /\ inRoom[c] /\ ldirty[c] /\ lfetch[c] = <<>>
    /\ lfetch' = [lfetch EXCEPT ![c] =
                    <<[i \in 1..Len(players) |->
                        [id |-> players[i].id, is_host |-> players[i].is_host]]>>]
    /\ ldirty' = [ldirty EXCEPT ![c] = FALSE]
    /\ UNCHANGED <<build, drawVars, dbVars, screen, inRoom, me, lplayers, ltask, toast,
                   boardVars>>

\* fetchPlayersForRoom: setPlayers(data)
setPlayers(c) ==
    /\ screen[c] = "lobby" /\ lfetch[c] # <<>>
    /\ lplayers' = [lplayers EXCEPT ![c] = lfetch[c][1]]
    /\ lfetch' = [lfetch EXCEPT ![c] = <<>>]
    /\ UNCHANGED <<build, drawVars, dbVars, screen, inRoom, me, ldirty, ltask, toast,
                   boardVars>>

\* players.find(p => p.is_host) || players[0]
firstPlayer(ps) ==
    IF \E i \in 1..Len(ps) : ps[i].is_host
    THEN ps[CHOOSE i \in 1..Len(ps) : ps[i].is_host /\ \A j \in 1..(i - 1) : ~ps[j].is_host]
    ELSE ps[1]

\* startGame without the is_host test: any player of a room may go on
startGameIsHostAnyPlayer(c) == inRoom[c] /\ me[c].id # None

\* startGame may go on: the caller is the host of a room
startGameIsHost(c) == inRoom[c] /\ me[c].id # None /\ me[c].is_host

\* startGame with the players test off by one: one player is enough
startGameEnoughOne(c) == Len(lplayers[c]) >= 1

\* startGame may go on: enough players
startGameEnough(c) == Len(lplayers[c]) >= 2

\* startGame up to its await: the two guards, the word, the first drawer
startGame(c) ==
    /\ screen[c] = "lobby" /\ ltask[c] = Idle
    /\ IF ~startGameIsHost(c)
       THEN /\ toast' = [toast EXCEPT ![c] = "Only the host can start the game"]
            /\ UNCHANGED ltask
       ELSE IF ~startGameEnough(c)
       THEN /\ toast' = [toast EXCEPT ![c] = "Need at least 2 players to start"]
            /\ UNCHANGED ltask
       ELSE /\ \E w \in LobbyWords :
                 ltask' = [ltask EXCEPT ![c] =
                    [op |-> "start", word |-> w, first |-> firstPlayer(lplayers[c]).id]]
            /\ UNCHANGED toast
    /\ UNCHANGED <<build, drawVars, dbVars, screen, inRoom, me, lplayers, ldirty, lfetch,
                   boardVars>>

\* startGame, the await: update game_rooms
startGameUpdate(c) ==
    /\ ltask[c].op = "start"
    /\ InboxFree
    /\ room' = [room EXCEPT !.current_player_id = ltask[c].first,
                            !.current_word = ltask[c].word,
                            !.round_number = 1]
    /\ ldirty' = Notified(ldirty)
    /\ inbox' = Broadcast(inbox, RoomMsg(room'))
    /\ ltask' = [ltask EXCEPT ![c] = [op |-> "started"]]
    /\ UNCHANGED <<build, drawVars, players, guesses, ended, screen, inRoom, me, lplayers,
                   lfetch, toast, lroom, bplayers, timeLeft, isCurrentPlayer,
                   gamePhase, tasks>>

\* startGame after the await: onStartGame -> App.handleStartGame; GameLobby
\* unmounts, GameBoard mounts and calls fetchGameData
handleStartGame(c) ==
    /\ ltask[c].op = "started"
    /\ screen' = [screen EXCEPT ![c] = "playing"]
    /\ inRoom' = [inRoom EXCEPT ![c] = FALSE]
    /\ me' = [me EXCEPT ![c] = NoPlayer]
    /\ lplayers' = [lplayers EXCEPT ![c] = <<>>]
    /\ ldirty' = [ldirty EXCEPT ![c] = FALSE]
    /\ lfetch' = [lfetch EXCEPT ![c] = <<>>]
    /\ ltask' = [ltask EXCEPT ![c] = Idle]
    /\ tasks' = [tasks EXCEPT ![c] = SetToBag({FetchTask})]
    /\ UNCHANGED <<build, drawVars, dbVars, toast, lroom, bplayers, timeLeft,
                   isCurrentPlayer, gamePhase, inbox>>

LobbyNext ==
    \E c \in Clients :
        \/ createRoom(c)
        \/ createRoomPlayer(c)
        \/ joinRoom(c)
        \/ joinRoomPlayer(c)
        \/ fetchPlayersForRoom(c)
        \/ setPlayers(c)
        \/ startGame(c)
        \/ startGameUpdate(c)
        \/ handleStartGame(c)

\* ---------------------------------------------------------------- GameBoard
\* a GameBoard shows its page: v1 waits for room and currentPlayer, v3 for room
Rendered(c) ==
    /\ screen[c] = "playing"
    /\ lroom[c].exists
    /\ build = "v1" => \E i \in 1..Len(bplayers[c]) : bplayers[c][i].id = c

\* currentPlayer?.is_host, currentPlayer being players.find(p => p.id === playerId)
IsHostOnBoard(c) ==
    \E i \in 1..Len(bplayers[c]) : bplayers[c][i].id = c /\ bplayers[c][i].is_host

\* players[(players.findIndex(p => p.id === room.current_player_id) + 1) % players.length],
\* None where the list is empty (nextPlayer is undefined)
nextPlayer(r, ps) ==
    IF ps = <<>> THEN None
    ELSE ps[(IndexOfId(ps, r.current_player_id) % Len(ps)) + 1].id

\* handleRoundEnd up to its first await, on the room and players of the
\* render that created the handler; by: what called it ("timer": the
\* countdown reached zero, "room": the countdown effect ran again on a new
\* room with timeLeft still zero, "guess": submitGuess)
handleRoundEnd(r, ps, by) ==
    [op |-> "roundEnd", pc |-> "update", by |-> by,
     seen |-> r.round_number,
     nextRound |-> r.round_number + 1,
     nextPlayer |-> nextPlayer(r, ps),
     end |-> ~(r.round_number + 1 <= r.max_rounds),
     time |-> r.time_per_round]

\* the handlers a call of handleRoundEnd leaves in flight: none if room is
\* null, none if nextPlayer.id throws
RoundEndCalls(r, ps, by) ==
    IF ~r.exists THEN {}
    ELSE IF ~handleRoundEnd(r, ps, by).end /\ nextPlayer(r, ps) = None THEN {}
    ELSE {handleRoundEnd(r, ps, by)}

\* build v2: handleRoundEnd goes on to clearCanvas(), which reads the
\* isCurrentPlayer of the render that created the handler
Stamp(c, calls) ==
    IF build = "v2" THEN {t @@ [clear |-> isCurrentPlayer[c]] : t \in calls} ELSE calls

\* setRoom(r) on build v3 and the two effects that depend on room
\* (isCurrentPlayer and timeLeft; the countdown effect calls handleRoundEnd
\* when the render it runs in still has timeLeft = 0); b: the handlers in
\* flight once the caller's own step is taken
SetRoomV3(c, r, b) ==
    /\ lroom' = [lroom EXCEPT ![c] = r]
    /\ isCurrentPlayer' = [isCurrentPlayer EXCEPT ![c] = (r.current_player_id = c)]
    /\ timeLeft' = [timeLeft EXCEPT ![c] = r.time_per_round]
    /\ LET calls == IF timeLeft[c] = 0
                    THEN Stamp(c, RoundEndCalls(r, bplayers[c], "room")) ELSE {}
       IN  /\ BagCardinality(b) + Cardinality(calls) <= MaxTasks
           /\ tasks' = [tasks EXCEPT ![c] = b (+) SetToBag(calls)]

\* fetchGameData, first await: select the room
fetchRoom(c) ==
    /\ screen[c] = "playing"
    /\ \E t \in Tasks(c) :
        /\ t.op = "fetch" /\ t.pc = "readRoom"
        /\ tasks' = [tasks EXCEPT ![c] =
              AddTask(DelTask(@, t), [op |-> "fetch", pc |-> "setRoom", data |-> room])]
    /\ UNCHANGED <<build, drawVars, dbVars, screen, lobbyVars, toast, lroom, bplayers,
                   timeLeft, isCurrentPlayer, gamePhase, inbox>>

\* fetchGameData: setRoom(roomData)
fetchSetRoom(c) ==
    /\ screen[c] = "playing"
    /\ \E t \in Tasks(c) :
        /\ t.op = "fetch" /\ t.pc = "setRoom"
        /\ LET b == AddTask(DelTask(tasks[c], t),
                            [op |-> "fetch", pc |-> "readPlayers",
                             drawer |-> IF build = "v1" THEN t.data.current_player_id
                                        ELSE None])
           IN  IF build = "v1"
               THEN /\ lroom' = [lroom EXCEPT ![c] = t.data]
                    /\ tasks' = [tasks EXCEPT ![c] = b]
                    /\ UNCHANGED <<isCurrentPlayer, timeLeft>>
               ELSE SetRoomV3(c, t.data, b)
    /\ UNCHANGED <<build, drawVars, dbVars, screen, lobbyVars, toast, bplayers, gamePhase,
                   inbox>>

\* fetchGameData, second await: select the players, ordered by score
fetchPlayers(c) ==
    /\ screen[c] = "playing"
    /\ \E t \in Tasks(c) :
        /\ t.op = "fetch" /\ t.pc = "readPlayers"
        /\ \E ps \in ByScore(players) :
              tasks' = [tasks EXCEPT ![c] =
                 AddTask(DelTask(@, t), [op |-> "fetch", pc |-> "setPlayers",
                                         drawer |-> t.drawer, data |-> ps])]
    /\ UNCHANGED <<build, drawVars, dbVars, screen, lobbyVars, toast, lroom, bplayers,
                   timeLeft, isCurrentPlayer, gamePhase, inbox>>

\* fetchGameData: setPlayers(playersData), and on v1
\* setIsCurrentPlayerDrawing(roomData.current_player_id === playerId)
fetchSetPlayers(c) ==
    /\ screen[c] = "playing"
    /\ \E t \in Tasks(c) :
        /\ t.op = "fetch" /\ t.pc = "setPlayers"
        /\ bplayers' = [bplayers EXCEPT ![c] = t.data]
        /\ isCurrentPlayer' = [isCurrentPlayer EXCEPT ![c] =
              IF build = "v1" THEN t.drawer = c ELSE @]
        /\ tasks' = [tasks EXCEPT ![c] = DelTask(@, t)]
    /\ UNCHANGED <<build, drawVars, dbVars, screen, lobbyVars, toast, lroom, timeLeft,
                   gamePhase, inbox>>

\* a change notification reaches the GameBoard: an UPDATE of the room is
\* setRoom(payload.new); a change of players or a new guess calls fetchGameData
deliver(c) ==
    /\ screen[c] = "playing" /\ inbox[c] # <<>>
    /\ inbox' = [inbox EXCEPT ![c] = Tail(@)]
    /\ LET m == Head(inbox[c])
       IN  IF m.type = "room"
           THEN IF build = "v1"
                THEN /\ lroom' = [lroom EXCEPT ![c] = m.new]
                     /\ isCurrentPlayer' = [isCurrentPlayer EXCEPT ![c] =
                                               (m.new.current_player_id = c)]
                     /\ UNCHANGED <<timeLeft, tasks>>
                ELSE SetRoomV3(c, m.new, tasks[c])
           ELSE /\ NTasks(c) < MaxTasks
                /\ tasks' = [tasks EXCEPT ![c] = AddTask(@, FetchTask)]
                /\ UNCHANGED <<lroom, isCurrentPlayer, timeLeft>>
    /\ UNCHANGED <<build, drawVars, dbVars, screen, lobbyVars, toast, bplayers, gamePhase>>

\* the countdown effect of v3: one second passes; at zero it calls handleRoundEnd
tick(c) ==
    /\ build \in {"v2", "v3"} /\ screen[c] = "playing"
    /\ timeLeft[c] > 0 /\ lroom[c].exists /\ lroom[c].is_active
    /\ timeLeft' = [timeLeft EXCEPT ![c] = @ - 1]
    /\ LET calls == IF timeLeft[c] = 1
                    THEN Stamp(c, RoundEndCalls(lroom[c], bplayers[c], "timer")) ELSE {}
       IN  /\ NTasks(c) + Cardinality(calls) <= MaxTasks
           /\ tasks' = [tasks EXCEPT ![c] = @ (+) SetToBag(calls)]
    /\ UNCHANGED <<build, drawVars, dbVars, screen, lobbyVars, toast, lroom, bplayers,
                   isCurrentPlayer, gamePhase, inbox>>

\* guesses recorded or about to be
GuessesInFlight ==
    Len(guesses) + Cardinality({<<c, t>> \in Clients \X UNION {Tasks(c) : c \in Clients} :
                                   t \in Tasks(c) /\ t.op \in {"guess", "chat"}
                                   /\ t.pc = "insert"})

\* submitGuess of v3 may go on: a guess that is not blank, by a player the
\* client does not take for the drawer
submitGuessAllowed(c, text) == trim(text) # <<>> /\ ~isCurrentPlayer[c]

\* submitGuess of v3 up to its first await; the guess box is shown to a
\* player who is not drawing while the room is active; n: the rows the
\* guesses table may hold
submitGuessUpTo(c, text, n) ==
    /\ build = "v3" /\ Rendered(c)
    /\ ~isCurrentPlayer[c] /\ lroom[c].is_active
    /\ IF ~submitGuessAllowed(c, text)
       THEN UNCHANGED tasks
       ELSE /\ NTasks(c) < MaxTasks /\ GuessesInFlight < n
            /\ tasks' = [tasks EXCEPT ![c] = AddTask(@,
                  [op |-> "guess", pc |-> "insert", text |-> trim(text),
                   isCorrect |-> isCorrectBoard(text, lroom[c].current_word),
                   round |-> lroom[c].round_number,
                   score |-> LET i == IndexOfId(bplayers[c], c)
                             IN  IF i = 0 THEN -1 ELSE bplayers[c][i].score,
                   calls |-> RoundEndCalls(lroom[c], bplayers[c], "guess")])]
    /\ UNCHANGED <<build, drawVars, dbVars, screen, lobbyVars, toast, lroom, bplayers,
                   timeLeft, isCurrentPlayer, gamePhase, inbox>>

submitGuess(c, text) == submitGuessUpTo(c, text, MaxGuesses)

\* submitGuess of v3, first await: insert the guess
guessInsert(c) ==
    /\ InboxFree
    /\ \E t \in Tasks(c) :
        /\ t.op = "guess" /\ t.pc = "insert"
        /\ guesses' = Append(guesses, [player_id |-> c, guess |-> t.text,
                                       is_correct |-> t.isCorrect, round |-> t.round])
        /\ tasks' = [tasks EXCEPT ![c] =
              IF t.isCorrect THEN AddTask(DelTask(@, t), [t EXCEPT !.pc = "score"])
              ELSE DelTask(@, t)]
    /\ inbox' = Broadcast(inbox, RefetchMsg)
    /\ UNCHANGED <<build, drawVars, room, players, ended, screen, lobbyVars, toast, lroom,
                   bplayers, timeLeft, isCurrentPlayer, gamePhase>>

\* the players table with the score of one player replaced
WithScore(id, n) ==
    [i \in 1..Len(players) |->
        IF players[i].id = id THEN [players[i] EXCEPT !.score = n] ELSE players[i]]

ScoreOf(id) == players[IndexOfId(players, id)].score

\* submitGuess of v3, second await: update score to playerData.score + 10,
\* playerData being the row of the client's own players list
guessScore(c) ==
    /\ InboxFree
    /\ \E t \in Tasks(c) :
        /\ t.op = "guess" /\ t.pc = "score" /\ t.score >= 0
        /\ players' = WithScore(c, t.score + Bonus)
        /\ tasks' = [tasks EXCEPT ![c] = AddTask(DelTask(@, t), [t EXCEPT !.pc = "roundEnd"])]
    /\ ldirty' = Notified(ldirty)
    /\ inbox' = Broadcast(inbox, RefetchMsg)
    /\ UNCHANGED <<build, drawVars, room, guesses, ended, screen, inRoom, me, lplayers,
                   lfetch, ltask, toast, lroom, bplayers, timeLeft,
                   isCurrentPlayer, gamePhase>>

\* submitGuess of v3 after the score: handleRoundEnd()
guessRoundEnd(c) ==
    /\ \E t \in Tasks(c) :
        /\ t.op = "guess"
        /\ t.pc = "roundEnd" \/ (t.pc = "score" /\ t.score < 0)
        /\ tasks' = [tasks EXCEPT ![c] = DelTask(@, t) (+) SetToBag(t.calls)]
    /\ UNCHANGED <<build, drawVars, dbVars, screen, lobbyVars, toast, lroom, bplayers,
                   timeLeft, isCurrentPlayer, gamePhase, inbox>>

\* handleRoundEnd, first await: the next round (round number, drawer and a
\* getRandomWord()) or is_active = false
roundEndUpdate(c) ==
    /\ InboxFree
    /\ \E t \in Tasks(c) :
        /\ t.op = "roundEnd" /\ t.pc = "update"
        /\ IF t.end
           THEN /\ room' = [room EXCEPT !.is_active = FALSE]
                /\ tasks' = [tasks EXCEPT ![c] = DelTask(@, t)]
           ELSE /\ \E w \in GAME_WORDS :
                     room' = [room EXCEPT !.round_number = t.nextRound,
                                          !.current_player_id = t.nextPlayer,
                                          !.current_word = w]
                /\ tasks' = [tasks EXCEPT ![c] =
                                AddTask(DelTask(@, t), [t EXCEPT !.pc = "delete"])]
        /\ ended' = ended \cup {<<t.seen, t.by>>}
    /\ ldirty' = Notified(ldirty)
    /\ inbox' = Broadcast(inbox, RoomMsg(room'))
    /\ UNCHANGED <<build, drawVars, players, guesses, screen, inRoom, me, lplayers, lfetch,
                   ltask, toast, lroom, bplayers, timeLeft, isCurrentPlayer,
                   gamePhase>>

\* handleRoundEnd, second await: delete the strokes of the room
roundEndDelete(c) ==
    /\ \E t \in Tasks(c) :
        /\ t.op = "roundEnd" /\ t.pc = "delete"
        /\ tasks' = [tasks EXCEPT ![c] = AddTask(DelTask(@, t), [t EXCEPT !.pc = "setTime"])]
    /\ strokes' = <<>>
    /\ UNCHANGED <<build, canvasVars, dbVars, screen, lobbyVars, toast, lroom, bplayers,
                   timeLeft, isCurrentPlayer, gamePhase, inbox>>

\* handleRoundEnd, the end: setTimeLeft(room.time_per_round)
roundEndSetTime(c) ==
    /\ \E t \in Tasks(c) :
        /\ t.op = "roundEnd" /\ t.pc = "setTime"
        /\ timeLeft' = [timeLeft EXCEPT ![c] = t.time]
        /\ tasks' = [tasks EXCEPT ![c] = DelTask(@, t)]
    /\ UNCHANGED <<build, drawVars, dbVars, screen, lobbyVars, toast, lroom, bplayers,
                   isCurrentPlayer, gamePhase, inbox>>

\* ChatPanel.submitGuess may go on: a guess that is not blank, the player is
\* not drawing, no other submission is in flight (isSubmitting)
chatGuessAllowed(c, text) ==
    /\ trim(text) # <<>>
    /\ ~isCurrentPlayer[c]
    /\ ~\E t \in Tasks(c) : t.op = "chat"

\* ChatPanel.submitGuess (build v1) up to its first await; the form is shown
\* to a player who is not drawing
chatSubmitGuess(c, text) ==
    /\ build = "v1" /\ Rendered(c)
    /\ ~isCurrentPlayer[c]
    /\ IF ~chatGuessAllowed(c, text)
       THEN UNCHANGED tasks
       ELSE /\ NTasks(c) < MaxTasks /\ GuessesInFlight < MaxGuesses
            /\ tasks' = [tasks EXCEPT ![c] = AddTask(@,
                  [op |-> "chat", pc |-> "insert", text |-> trim(text),
                   isCorrect |-> isCorrectChat(text, lroom[c].current_word),
                   round |-> lroom[c].round_number])]
    /\ UNCHANGED <<build, drawVars, dbVars, screen, lobbyVars, toast, lroom, bplayers,
                   timeLeft, isCurrentPlayer, gamePhase, inbox>>

\* ChatPanel.submitGuess, first await: insert the guess (the GameBoard of v1
\* does not listen to guesses)
chatInsert(c) ==
    /\ \E t \in Tasks(c) :
        /\ t.op = "chat" /\ t.pc = "insert"
        /\ guesses' = Append(guesses, [player_id |-> c, guess |-> t.text,
                                       is_correct |-> t.isCorrect, round |-> t.round])
        /\ tasks' = [tasks EXCEPT ![c] =
              IF t.isCorrect THEN AddTask(DelTask(@, t), [t EXCEPT !.pc = "score"])
              ELSE DelTask(@, t)]
    /\ UNCHANGED <<build, drawVars, room, players, ended, screen, lobbyVars, toast, lroom,
                   bplayers, timeLeft, isCurrentPlayer, gamePhase, inbox>>

\* ChatPanel.submitGuess, second await: update score to supabase.sql`score + 10`.
\* The client library is not part of the sources: either the expression
\* reaches the database, which adds 10 to the row, or evaluating it throws
\* and the catch block leaves the score alone.
chatScore(c) ==
    /\ InboxFree
    /\ \E t \in Tasks(c) :
        /\ t.op = "chat" /\ t.pc = "score"
        /\ tasks' = [tasks EXCEPT ![c] = DelTask(@, t)]
    /\ \/ /\ players' = WithScore(c, ScoreOf(c) + Bonus)
          /\ ldirty' = Notified(ldirty)
          /\ inbox' = Broadcast(inbox, RefetchMsg)
       \/ UNCHANGED <<players, ldirty, inbox>>
    /\ UNCHANGED <<build, drawVars, room, guesses, ended, screen, inRoom, me, lplayers,
                   lfetch, ltask, toast, lroom, bplayers, timeLeft,
                   isCurrentPlayer, gamePhase>>

\* the word startNewRound of v1 writes: words[0]?.word || 'cat', words being
\* one random row of the game_words table
startNewRoundWords == GAME_WORDS \cup {cat}

\* startNewRound of v1 up to its first await; the button is shown to the
\* host while gamePhase is 'waiting'
startNewRound(c) ==
    /\ build = "v1" /\ Rendered(c)
    /\ IsHostOnBoard(c) /\ gamePhase[c] = "waiting"
    /\ NTasks(c) < MaxTasks
    /\ tasks' = [tasks EXCEPT ![c] = AddTask(@,
          [op |-> "newRound", pc |-> "update",
           seen |-> lroom[c].round_number,
           nextRound |-> lroom[c].round_number + 1,
           nextPlayer |-> nextPlayer(lroom[c], bplayers[c])])]
    /\ UNCHANGED <<build, drawVars, dbVars, screen, lobbyVars, toast, lroom, bplayers,
                   timeLeft, isCurrentPlayer, gamePhase, inbox>>

\* startNewRound of v1: the word is selected, then the room is updated
startNewRoundUpdate(c) ==
    /\ InboxFree
    /\ \E t \in Tasks(c) :
        /\ t.op = "newRound" /\ t.pc = "update"
        /\ \E w \in startNewRoundWords :
              room' = [room EXCEPT !.current_player_id = t.nextPlayer,
                                   !.current_word = w,
                                   !.round_number = t.nextRound]
        /\ ended' = ended \cup {<<t.seen, "host">>}
        /\ tasks' = [tasks EXCEPT ![c] = AddTask(DelTask(@, t), [t EXCEPT !.pc = "delete"])]
    /\ ldirty' = Notified(ldirty)
    /\ inbox' = Broadcast(inbox, RoomMsg(room'))
    /\ UNCHANGED <<build, drawVars, players, guesses, screen, inRoom, me, lplayers, lfetch,
                   ltask, toast, lroom, bplayers, timeLeft, isCurrentPlayer,
                   gamePhase>>

\* startNewRound of v1: the strokes are deleted, then setGamePhase('playing')
\* and setTimeLeft(room.time_per_round)
startNewRoundDone(c) ==
    /\ \E t \in Tasks(c) :
        /\ t.op = "newRound" /\ t.pc = "delete"
        /\ tasks' = [tasks EXCEPT ![c] = DelTask(@, t)]
    /\ gamePhase' = [gamePhase EXCEPT ![c] = "playing"]
    /\ timeLeft' = [timeLeft EXCEPT ![c] = lroom[c].time_per_round]
    /\ strokes' = <<>>
    /\ UNCHANGED <<build, canvasVars, dbVars, screen, lobbyVars, toast, lroom, bplayers,
                   isCurrentPlayer, inbox>>

BoardNext ==
    \E c \in Clients :
        \/ fetchRoom(c)
        \/ fetchSetRoom(c)
        \/ fetchPlayers(c)
        \/ fetchSetPlayers(c)
        \/ deliver(c)
        \/ tick(c)
        \/ \E text \in GuessTexts : submitGuess(c, text)
        \/ guessInsert(c)
        \/ guessScore(c)
        \/ guessRoundEnd(c)
        \/ roundEndUpdate(c)
        \/ roundEndDelete(c)
        \/ roundEndSetTime(c)
        \/ \E text \in GuessTexts : chatSubmitGuess(c, text)
        \/ chatInsert(c)
        \/ chatScore(c)
        \/ startNewRound(c)
        \/ startNewRoundUpdate(c)
        \/ startNewRoundDone(c)

\* the lobby: from the first page to the moment the host's GameBoard mounts
Next == LobbyNext

Spec == Init /\ [][Next]_vars

\* the host has started the game of a room with the players ps and the
\* host's GameBoard has just mounted; a guest of the room is still on the
\* lobby page of the room, any other client on the lobby's first page
GameStarted(ps) ==
    /\ \E w \in LobbyWords :
          room = [exists |-> TRUE, host_id |-> "uuid", current_player_id |-> "c1",
                  current_word |-> w, round_number |-> 1,
                  max_rounds |-> MaxRounds, time_per_round |-> TimePerRound,
                  is_active |-> TRUE]
    /\ players = ps
    /\ guesses = <<>>
    /\ ended = {}
    /\ screen = [c \in Clients |-> IF c = "c1" THEN "playing" ELSE "lobby"]
    /\ inRoom = [c \in Clients |-> c # "c1" /\ IndexOfId(ps, c) # 0]
    /\ me = [c \in Clients |-> IF c # "c1" /\ IndexOfId(ps, c) # 0
                               THEN [id |-> c, is_host |-> FALSE] ELSE NoPlayer]
    /\ lplayers = [c \in Clients |-> <<>>]
    /\ ldirty = [c \in Clients |-> c # "c1" /\ IndexOfId(ps, c) # 0]
    /\ lfetch = [c \in Clients |-> <<>>]
    /\ ltask = [c \in Clients |-> Idle]
    /\ toast = [c \in Clients |-> None]
    /\ lroom = [c \in Clients |-> NoRoom]
    /\ bplayers = [c \in Clients |-> <<>>]
    /\ timeLeft = [c \in Clients |-> TimePerRound]
    /\ isCurrentPlayer = [c \in Clients |-> FALSE]
    /\ gamePhase = [c \in Clients |-> "waiting"]
    /\ tasks = [c \in Clients |-> IF c = "c1" THEN SetToBag({FetchTask}) ELSE EmptyBag]
    /\ inbox = [c \in Clients |-> <<>>]
    /\ InitCanvas

\* a players row as createRoom (host) and joinRoom insert it
PlayerRow(id, host) == [id |-> id, is_host |-> host, score |-> 0, is_online |-> TRUE]

\* a room of two: the creator and the guest
InitGame == GameStarted(<<PlayerRow("c1", TRUE), PlayerRow("c2", FALSE)>>)

\* the game on the builds of Builds
InitBoard == build \in Builds /\ InitGame

NextBoard == BoardNext

SpecBoard == InitBoard /\ [][NextBoard]_vars

\* ---------------------------------------------------------------- GameBoard v2: the canvas
\* a point of stroke_data; its coordinates, colour and size are its id
Point(n, new) == [id |-> n, isNewStroke |-> new]

\* canvas operations: beginPath + moveTo, lineTo + stroke
Move(n) == <<"move", n>>
Line(n) == <<"line", n>>

\* drawFromStroke: the operations a batch of points makes on a canvas
drawFromStroke(strokeData) ==
    [i \in 1..Len(strokeData) |->
        IF strokeData[i].isNewStroke \/ i = 1
        THEN Move(strokeData[i].id) ELSE Line(strokeData[i].id)]

\* the variables the canvas handlers leave alone
drawFrame == <<build, dbVars, screen, lobbyVars, toast, lroom, bplayers, timeLeft,
               isCurrentPlayer, gamePhase, inbox>>

\* startDrawing (mouse down): a new path on the own canvas, and saveStroke of
\* the one point
startDrawing(c) ==
    /\ build = "v2" /\ Rendered(c)
    /\ IF ~isCurrentPlayer[c]
       THEN UNCHANGED <<canvas, isDrawing, ops, tasks>>
       ELSE /\ Len(ops) < MaxPoints /\ NTasks(c) < MaxTasks
            /\ LET p == Point(Len(ops) + 1, TRUE)
               IN  /\ isDrawing' = [isDrawing EXCEPT ![c] = TRUE]
                   /\ canvas' = [canvas EXCEPT ![c] = Append(@, Move(p.id))]
                   /\ ops' = Append(ops, Move(p.id))
                   /\ tasks' = [tasks EXCEPT ![c] =
                                   AddTask(@, [op |-> "stroke", data |-> <<p>>])]
    /\ UNCHANGED <<drawFrame, strokes, vinbox, vcanvas>>

\* draw (mouse move): a line on the own canvas, and saveStroke of the one point
draw(c) ==
    /\ build = "v2" /\ Rendered(c)
    /\ IF ~isDrawing[c] \/ ~isCurrentPlayer[c]
       THEN UNCHANGED <<canvas, ops, tasks>>
       ELSE /\ Len(ops) < MaxPoints /\ NTasks(c) < MaxTasks
            /\ LET p == Point(Len(ops) + 1, FALSE)
               IN  /\ canvas' = [canvas EXCEPT ![c] = Append(@, Line(p.id))]
                   /\ ops' = Append(ops, Line(p.id))
                   /\ tasks' = [tasks EXCEPT ![c] =
                                   AddTask(@, [op |-> "stroke", data |-> <<p>>])]
    /\ UNCHANGED <<drawFrame, isDrawing, strokes, vinbox, vcanvas>>

\* stopDrawing (mouse up, mouse leave)
stopDrawing(c) ==
    /\ build = "v2" /\ Rendered(c)
    /\ isDrawing' = [isDrawing EXCEPT ![c] = FALSE]
    /\ UNCHANGED <<drawFrame, canvas, ops, tasks, strokes, vinbox, vcanvas>>

\* saveStroke, the await: insert into draw_strokes.  The drawingChannel of
\* the inserting client drops its own rows; a viewer's gets the row.
\* round is no column: with hist it records the stored round the row was
\* drawn in when its player is the drawer of that round, and is 0 otherwise.
saveStrokeIn(c, hist) ==
    /\ \E t \in Tasks(c) :
        /\ t.op = "stroke"
        /\ LET row == [player_id |-> c, stroke_data |-> t.data,
                      round |-> IF hist /\ room.current_player_id = c
                                THEN room.round_number ELSE 0]
           IN  /\ strokes' = Append(strokes, row)
               /\ vinbox' = Append(vinbox, row)
        /\ tasks' = [tasks EXCEPT ![c] = DelTask(@, t)]
    /\ UNCHANGED <<drawFrame, canvas, isDrawing, ops, vcanvas>>

saveStroke(c) == saveStrokeIn(c, FALSE)

\* the drawingChannel callback of a GameBoard mounted for another player of
\* the room: payload.new.player_id !== playerId, so drawFromStroke
viewerDraw ==
    /\ build = "v2" /\ vinbox # <<>>
    /\ vcanvas' = vcanvas \o drawFromStroke(Head(vinbox).stroke_data)
    /\ vinbox' = Tail(vinbox)
    /\ UNCHANGED <<drawFrame, canvas, isDrawing, ops, tasks, strokes>>

\* clearCanvas from the Clear button, shown with the drawing tools to the
\* current player of an active room: the own canvas is wiped, then the
\* strokes are deleted (seen: the round whose end made the call, 0 for the
\* button)
clearCanvas(c) ==
    /\ build = "v2" /\ Rendered(c)
    /\ isCurrentPlayer[c] /\ lroom[c].is_active
    /\ NTasks(c) < MaxTasks
    /\ canvas' = [canvas EXCEPT ![c] = <<>>]
    /\ tasks' = [tasks EXCEPT ![c] = AddTask(@, [op |-> "clear", seen |-> 0])]
    /\ UNCHANGED <<drawFrame, isDrawing, ops, strokes, vinbox, vcanvas>>

\* clearCanvas, the await: delete the strokes of the room (no GameBoard
\* listens to a DELETE of draw_strokes)
clearDelete(c) ==
    /\ \E t \in Tasks(c) :
        /\ t.op = "clear"
        /\ tasks' = [tasks EXCEPT ![c] = DelTask(@, t)]
    /\ strokes' = <<>>
    /\ UNCHANGED <<drawFrame, canvasVars>>

\* handleRoundEnd of v2 after its update: clearCanvas() is called and not
\* awaited (it returns at once unless the handler's render had
\* isCurrentPlayer), then setTimeLeft(room.time_per_round); with hist the
\* call keeps the round whose end made it
roundEndClearIn(c, hist) ==
    /\ build = "v2"
    /\ \E t \in Tasks(c) :
        /\ t.op = "roundEnd" /\ t.pc = "delete"
        /\ IF t.clear
           THEN /\ canvas' = [canvas EXCEPT ![c] = <<>>]
                /\ tasks' = [tasks EXCEPT ![c] = AddTask(DelTask(@, t),
                                            [op |-> "clear",
                                             seen |-> IF hist THEN t.seen ELSE 0])]
           ELSE /\ tasks' = [tasks EXCEPT ![c] = DelTask(@, t)]
                /\ UNCHANGED canvas
        /\ timeLeft' = [timeLeft EXCEPT ![c] = t.time]
    /\ UNCHANGED <<build, dbVars, screen, lobbyVars, toast, lroom, bplayers,
                   isCurrentPlayer, gamePhase, inbox, isDrawing, ops, strokes,
                   vinbox, vcanvas>>

roundEndClear(c) == roundEndClearIn(c, FALSE)

DrawNext ==
    \/ \E c \in Clients :
        \/ fetchRoom(c)
        \/ fetchSetRoom(c)
        \/ fetchPlayers(c)
        \/ fetchSetPlayers(c)
        \/ deliver(c)
        \/ tick(c)
        \/ roundEndUpdate(c)
        \/ roundEndClear(c)
        \/ startDrawing(c)
        \/ draw(c)
        \/ stopDrawing(c)
        \/ saveStroke(c)
        \/ clearCanvas(c)
        \/ clearDelete(c)
    \/ viewerDraw

\* the game on build v2, with its canvas
InitDraw == build = "v2" /\ InitGame

NextDraw == DrawNext

SpecDraw == InitDraw /\ [][NextDraw]_vars

\* ---------------------------------------------------------------- the strokes of a round and the clear of its end
ClearNext ==
    \E c \in Clients :
        \/ fetchRoom(c)
        \/ fetchSetRoom(c)
        \/ fetchPlayers(c)
        \/ fetchSetPlayers(c)
        \/ deliver(c)
        \/ tick(c)
        \/ roundEndUpdate(c)
        \/ roundEndClearIn(c, TRUE)
        \/ startDrawing(c)
        \/ saveStrokeIn(c, TRUE)
        \/ clearDelete(c)

NextClear == ClearNext

\* build v2 with one-point strokes; rows and clears keep their rounds
SpecClear == InitDraw /\ [][NextClear]_vars

\* ---------------------------------------------------------------- rounds of a room of three
\* a third player, c3, has joined from a browser that stays in the lobby
InitRotate ==
    /\ build = "v3"
    /\ GameStarted(<<PlayerRow("c1", TRUE), PlayerRow("c2", FALSE), PlayerRow("c3", FALSE)>>)

RotateNext ==
    \E c \in Clients :
        \/ fetchRoom(c)
        \/ fetchSetRoom(c)
        \/ fetchPlayers(c)
        \/ fetchSetPlayers(c)
        \/ deliver(c)
        \/ tick(c)
        \/ roundEndUpdate(c)
        \/ roundEndDelete(c)
        \/ roundEndSetTime(c)

NextRotate == RotateNext

SpecRotate == InitRotate /\ [][NextRotate]_vars

\* every await of the board resolves, every notification is handled and
\* the one-second timer of the countdown fires
FairRotate ==
    /\ InitRotate /\ [][NextRotate]_vars
    /\ \A c \in Clients :
          /\ WF_vars(fetchRoom(c)) /\ WF_vars(fetchSetRoom(c))
          /\ WF_vars(fetchPlayers(c)) /\ WF_vars(fetchSetPlayers(c))
          /\ WF_vars(deliver(c)) /\ WF_vars(tick(c))
          /\ WF_vars(roundEndUpdate(c)) /\ WF_vars(roundEndDelete(c))
          /\ WF_vars(roundEndSetTime(c))

\* ---------------------------------------------------------------- joining a started game
\* the host plays with c3, whose browser stays in the lobby; c2 has set a
\* name and has not joined yet
InitJoin ==
    /\ build = "v3"
    /\ GameStarted(<<PlayerRow("c1", TRUE), PlayerRow("c3", FALSE)>>)

LobbyBoardNext ==
    \E c \in Clients :
        \/ joinRoom(c)
        \/ joinRoomPlayer(c)
        \/ fetchRoom(c)
        \/ fetchSetRoom(c)
        \/ fetchPlayers(c)
        \/ fetchSetPlayers(c)
        \/ deliver(c)
        \/ tick(c)
        \/ roundEndUpdate(c)
        \/ roundEndDelete(c)
        \/ roundEndSetTime(c)

NextJoin == LobbyBoardNext

SpecJoin == InitJoin /\ [][NextJoin]_vars

\* ---------------------------------------------------------------- a new game after the end
\* v3, the page after the end of the game: the final-scores screen is
\* rendered instead of the board when the room is inactive with
\* round_number > max_rounds
GameOverScreen(c) ==
    /\ screen[c] = "playing" /\ lroom[c].exists
    /\ ~lroom[c].is_active /\ lroom[c].round_number > lroom[c].max_rounds

\* startNewRound of v3 up to its first await: the Start New Game button is
\* on the board of the host while the room is not active; firstPlayer is
\* players[0] of the client's list
startNewRoundV3(c) ==
    /\ build = "v3" /\ Rendered(c) /\ ~GameOverScreen(c)
    /\ IsHostOnBoard(c) /\ ~lroom[c].is_active
    /\ NTasks(c) < MaxTasks
    /\ tasks' = [tasks EXCEPT ![c] = AddTask(@,
          [op |-> "newGame", pc |-> "update",
           first |-> bplayers[c][1].id, time |-> lroom[c].time_per_round])]
    /\ UNCHANGED <<build, drawVars, dbVars, screen, lobbyVars, toast, lroom, bplayers,
                   timeLeft, isCurrentPlayer, gamePhase, inbox>>

\* startNewRound of v3, first await: the room is updated to round 1, active
startNewRoundV3Update(c) ==
    /\ InboxFree
    /\ \E t \in Tasks(c) :
        /\ t.op = "newGame" /\ t.pc = "update"
        /\ \E w \in GAME_WORDS :
              room' = [room EXCEPT !.current_player_id = t.first,
                                   !.current_word = w,
                                   !.round_number = 1,
                                   !.is_active = TRUE]
        /\ tasks' = [tasks EXCEPT ![c] = AddTask(DelTask(@, t), [t EXCEPT !.pc = "delete"])]
    /\ ldirty' = Notified(ldirty)
    /\ inbox' = Broadcast(inbox, RoomMsg(room'))
    /\ UNCHANGED <<build, drawVars, players, guesses, ended, screen, inRoom, me, lplayers,
                   lfetch, ltask, toast, lroom, bplayers, timeLeft, isCurrentPlayer,
                   gamePhase>>

\* startNewRound of v3, second await: delete the strokes of the room
startNewRoundV3Delete(c) ==
    /\ \E t \in Tasks(c) :
        /\ t.op = "newGame" /\ t.pc = "delete"
        /\ tasks' = [tasks EXCEPT ![c] = AddTask(DelTask(@, t), [t EXCEPT !.pc = "setTime"])]
    /\ strokes' = <<>>
    /\ UNCHANGED <<build, canvasVars, dbVars, screen, lobbyVars, toast, lroom, bplayers,
                   timeLeft, isCurrentPlayer, gamePhase, inbox>>

\* startNewRound of v3: setTimeLeft(room.time_per_round)
startNewRoundV3SetTime(c) ==
    /\ \E t \in Tasks(c) :
        /\ t.op = "newGame" /\ t.pc = "setTime"
        /\ tasks' = [tasks EXCEPT ![c] = DelTask(@, t)]
        /\ timeLeft' = [timeLeft EXCEPT ![c] = t.time]
    /\ UNCHANGED <<build, drawVars, dbVars, screen, lobbyVars, toast, lroom, bplayers,
                   isCurrentPlayer, gamePhase, inbox>>

RestartNext ==
    \E c \in Clients :
        \/ fetchRoom(c)
        \/ fetchSetRoom(c)
        \/ fetchPlayers(c)
        \/ fetchSetPlayers(c)
        \/ deliver(c)
        \/ tick(c)
        \/ roundEndUpdate(c)
        \/ roundEndDelete(c)
        \/ roundEndSetTime(c)
        \/ startNewRoundV3(c)
        \/ startNewRoundV3Update(c)
        \/ startNewRoundV3Delete(c)
        \/ startNewRoundV3SetTime(c)

\* the game of two on build v3, with the host's Start New Game
InitRestart == build = "v3" /\ InitGame

NextRestart == RestartNext

SpecRestart == InitRestart /\ [][NextRestart]_vars

\* ---------------------------------------------------------------- leaving the board
\* App.handleLeaveGame (handleBackToLobby): the board unmounts and a new
\* GameLobby mounts; nothing is sent to the database.  Handlers in flight
\* run on; what they set on the unmounted board shows nowhere.
handleLeaveGame(c) ==
    /\ Rendered(c)
    /\ screen' = [screen EXCEPT ![c] = "lobby"]
    /\ lroom' = [lroom EXCEPT ![c] = NoRoom]
    /\ bplayers' = [bplayers EXCEPT ![c] = <<>>]
    /\ timeLeft' = [timeLeft EXCEPT ![c] = TimePerRound]
    /\ isCurrentPlayer' = [isCurrentPlayer EXCEPT ![c] = FALSE]
    /\ gamePhase' = [gamePhase EXCEPT ![c] = "waiting"]
    /\ inbox' = [inbox EXCEPT ![c] = <<>>]
    /\ UNCHANGED <<build, drawVars, dbVars, lobbyVars, toast, tasks>>

LeaveNext ==
    \E c \in Clients :
        \/ fetchRoom(c)
        \/ fetchSetRoom(c)
        \/ fetchPlayers(c)
        \/ fetchSetPlayers(c)
        \/ deliver(c)
        \/ tick(c)
        \/ roundEndUpdate(c)
        \/ roundEndDelete(c)
        \/ roundEndSetTime(c)
        \/ handleLeaveGame(c)

NextLeave == LeaveNext

SpecLeave == InitBoard /\ [][NextLeave]_vars

\* ---------------------------------------------------------------- the scores of a room of three
\* the room of InitRotate in its second round
Round2 ==
    [exists |-> TRUE, host_id |-> "uuid", current_player_id |-> "c2",
     current_word |-> Cat, round_number |-> 2,
     max_rounds |-> MaxRounds, time_per_round |-> TimePerRound, is_active |-> TRUE]

\* the players of InitRotate
Three == <<PlayerRow("c1", TRUE), PlayerRow("c2", FALSE), PlayerRow("c3", FALSE)>>

\* the game of InitRotate one round later: the countdown of round 1 has run
\* out, c2 draws 'Cat' in round 2, and the host's board has caught up with
\* the room (a state that SpecRotate reaches)
InitScore ==
    /\ build = "v3"
    /\ room = Round2
    /\ players = Three
    /\ guesses = <<>>
    /\ ended = {<<1, "timer">>}
    /\ screen = [c \in Clients |-> IF c = "c1" THEN "playing" ELSE "lobby"]
    /\ inRoom = [c \in Clients |-> c # "c1"]
    /\ me = [c \in Clients |-> IF c # "c1" THEN [id |-> c, is_host |-> FALSE] ELSE NoPlayer]
    /\ lplayers = [c \in Clients |-> <<>>]
    /\ ldirty = [c \in Clients |-> c # "c1"]
    /\ lfetch = [c \in Clients |-> <<>>]
    /\ ltask = [c \in Clients |-> Idle]
    /\ toast = [c \in Clients |-> None]
    /\ lroom = [c \in Clients |-> IF c = "c1" THEN Round2 ELSE NoRoom]
    /\ bplayers = [c \in Clients |-> IF c = "c1" THEN Three ELSE <<>>]
    /\ timeLeft = [c \in Clients |-> TimePerRound]
    /\ isCurrentPlayer = [c \in Clients |-> FALSE]
    /\ gamePhase = [c \in Clients |-> "waiting"]
    /\ tasks = [c \in Clients |-> EmptyBag]
    /\ inbox = [c \in Clients |-> <<>>]
    /\ InitCanvas

ScoreNext ==
    \E c \in Clients :
        \/ fetchRoom(c)
        \/ fetchSetRoom(c)
        \/ fetchPlayers(c)
        \/ fetchSetPlayers(c)
        \/ deliver(c)
        \/ \E text \in GuessTexts : submitGuessUpTo(c, text, MaxScoreGuesses)
        \/ guessInsert(c)
        \/ guessScore(c)
        \/ guessRoundEnd(c)
        \/ roundEndUpdate(c)
        \/ roundEndDelete(c)
        \/ roundEndSetTime(c)

NextScore == ScoreNext

SpecScore == InitScore /\ [][NextScore]_vars

\* ---------------------------------------------------------------- the lobby, run to completion
\* the steps of the lobby that need no click: the continuation of an await
\* and the fetch after a players notification
LobbyRuns(c) ==
    \/ createRoomPlayer(c)
    \/ joinRoomPlayer(c)
    \/ fetchPlayersForRoom(c)
    \/ setPlayers(c)
    \/ startGameUpdate(c)
    \/ handleStartGame(c)

NextLobby == LobbyNext

\* every await of a lobby resolves and every notification is handled
FairLobby == Init /\ [][NextLobby]_vars /\ \A c \in Clients : WF_vars(LobbyRuns(c))

\* ---------------------------------------------------------------- claims
\* the players row of client c says is_host
IsHostPlayer(c) == \E i \in 1..Len(players) : players[i].id = c /\ players[i].is_host

\* the guess an INSERT into guesses has just added
NewGuess == guesses'[Len(guesses')]
GuessRecorded == Len(guesses') > Len(guesses)

\* C1: in a round that leads to a next round, a countdown timeout and a
\* correct guess that both call the round-end handler commit one round
\* transition between them, never one each.
C1_OneTransitionPerRound ==
    \A n \in 1..(MaxRounds - 1) : ~(<<n, "timer">> \in ended /\ <<n, "guess">> \in ended)

\* C2: a player's score is at most 10 points for each round in which that
\* player has a correct guess: two correct guesses of one player in one
\* round (as the player's client sees the round) earn 10, not 20.
C2_ScoreOncePerRound ==
    \A i \in 1..Len(players) :
        players[i].score <=
            Bonus * Cardinality({guesses[k].round : k \in
                {j \in 1..Len(guesses) : /\ guesses[j].player_id = players[i].id
                                         /\ guesses[j].is_correct}})

\* C3: every change of round_number is +1, is_active turns false only at a
\* round end where round_number + 1 exceeds max_rounds, and an active room
\* never holds a round_number above max_rounds.
C3_RoundAdvancesByOne ==
    [][room.exists =>
        /\ room'.round_number # room.round_number
              => room'.round_number = room.round_number + 1
        /\ (room.is_active /\ ~room'.is_active)
              => room.round_number + 1 > room.max_rounds
        /\ room'.is_active => room'.round_number <= room'.max_rounds]_vars

\* C4: current_word is non-null exactly while the room is active and a round
\* has started (a drawer is assigned): null in the lobby, null after the end.
C4_WordIffRoundActive ==
    room.exists =>
        (room.current_word # NoWord <=> (room.is_active /\ room.current_player_id # None))

\* C5: no guess is recorded for the player who is the room's
\* current_player_id at the moment of the insert.
C5_DrawerNeverGuesses ==
    [][GuessRecorded => NewGuess.player_id # room.current_player_id]_vars

\* C6: startGame called by a player who is not the host starts nothing and
\* leaves the room as it was; no update of startGame is ever sent for a
\* player who is not the host.
C6_NonHostStartRejected ==
    [][\A c \in Clients : ~IsHostPlayer(c) =>
          /\ startGame(c) => (ltask'[c] = Idle /\ room' = room)
          /\ ~startGameUpdate(c)]_vars

\* C6 witness: a player of the room who is not the host has called startGame,
\* was turned away, and the room is still in the lobby.
C6_Witness ==
    \E c \in Clients :
        /\ toast[c] = "Only the host can start the game"
        /\ inRoom[c] /\ ~IsHostPlayer(c) /\ me[c].id = c
        /\ room.exists /\ room.current_word = NoWord /\ room.current_player_id = None

\* C7: the update of startGame reaches a room with at least 2 players and
\* makes the host the drawer of round 1 with a word of the list; startGame
\* on a room with fewer than 2 players starts nothing.
C7_StartNeedsTwoPlayers ==
    [][\A c \in Clients :
          /\ startGameUpdate(c) =>
                /\ Len(players) >= 2
                /\ \E i \in 1..Len(players) :
                      players[i].is_host /\ players[i].id = room'.current_player_id
                /\ room'.current_word \in LobbyWords
                /\ room'.round_number = 1 /\ room'.is_active
          /\ (startGame(c) /\ Len(players) < 2) => (ltask'[c] = Idle /\ room' = room)]_vars

\* C7 witness: the host was turned away for want of a second player and has
\* later started the game.
C7_Witness ==
    /\ toast["c1"] = "Need at least 2 players to start"
    /\ ltask["c1"].op = "started"
    /\ room.current_player_id = "c1" /\ room.current_word \in LobbyWords
    /\ Len(players) = 2

\* C8: a guess is recorded only while the room is active and has a word.
C8_GuessOnlyInActiveRound ==
    [][GuessRecorded => (room.is_active /\ room.current_word # NoWord)]_vars

\* C9: the is_correct of a recorded guess says whether the guess, trimmed and
\* lower-cased, equals the trimmed lower-cased current_word the room holds
\* at the moment of the insert.
C9_IsCorrectAgainstRoomWord ==
    [][GuessRecorded =>
          (NewGuess.is_correct <=>
              trim(toLowerCase(NewGuess.guess)) = trim(toLowerCase(room.current_word)))]_vars

\* C10: behind every recorded correct guess there is a round-end: the
\* submission is still on its way to the handler, or the handler called for
\* that guess is in flight, or its transition is committed.
C10_CorrectGuessEndsRound ==
    \A i \in 1..Len(guesses) :
        guesses[i].is_correct =>
            \/ \E t \in Tasks(guesses[i].player_id) :
                  /\ t.op \in {"guess", "chat"} /\ t.pc \in {"score", "roundEnd"}
                  /\ t.round = guesses[i].round
            \/ \E t \in Tasks(guesses[i].player_id) :
                  t.op = "roundEnd" /\ t.by = "guess" /\ t.seen = guesses[i].round
            \/ <<guesses[i].round, "guess">> \in ended


\* C11: a stroke is appended to the stroke log only if, at the insertion,
\* its player is the current player of the room and the room is active.
C11_StrokeOnlyByActiveDrawer ==
    [][Len(strokes') > Len(strokes) =>
          /\ strokes'[Len(strokes')].player_id = room.current_player_id
          /\ room.is_active]_vars

\* C12: a step that moves the room to a next round leaves the stroke log
\* empty: the log is already empty when the new round's state is visible.
C12_TransitionClearsStrokes ==
    [][room'.round_number > room.round_number => strokes' = <<>>]_vars

C14_ViewerReplaysDrawer ==
    (/\ vinbox = <<>>
     /\ \A c \in Clients : \A t \in Tasks(c) : t.op # "stroke")
    => vcanvas = ops

\* C15: the arrival of new room state never calls the round-end handler
\* again, and no round transition is committed by such a call: the timeout
\* of round n does not move the room out of round n+1.
C15_NoRoundEndOnRoomArrival ==
    /\ \A c \in Clients : \A t \in Tasks(c) : t.op = "roundEnd" => t.by # "room"
    /\ \A e \in ended : e[2] # "room"

\* C16: a client's countdown goes up again only on a round transition: when
\* the round of the room the client holds changes, the room starts or ends
\* (or is first loaded), or when its own round-end or restart handler sets
\* it.  A recorded guess or a change of the players does not reset it.
C16_CountdownResetOnlyOnTransition ==
    [][\A c \in Clients :
          timeLeft'[c] > timeLeft[c] =>
              \/ ~lroom[c].exists
              \/ lroom'[c].round_number # lroom[c].round_number
              \/ lroom'[c].is_active # lroom[c].is_active
              \/ roundEndSetTime(c)
              \/ startNewRoundDone(c)]_vars

\* the player who joined next after player id, the first after the last
JoinNext(id) == players[(IndexOfId(players, id) % Len(players)) + 1].id

\* C17: a step that moves the room from a round to the next one hands the
\* drawing to the player who joined next after the current drawer, wrapping
\* to the first, whatever the scores.
C17_DrawerRotatesInJoinOrder ==
    [][(room.round_number >= 1 /\ room'.round_number = room.round_number + 1)
          => room'.current_player_id = JoinNext(room.current_player_id)]_vars

\* C18: what the client of a player who is not the drawer receives about
\* the room is the same whatever the word: a room notification queued for
\* it is the notification the room would give with any other word, and so
\* is a room row its fetchGameData has read.
C18_NonDrawerDataIndependentOfWord ==
    \A c \in Clients : \A w \in GAME_WORDS :
        /\ \A k \in 1..Len(inbox[c]) :
              (inbox[c][k].type = "room" /\ inbox[c][k].new.current_player_id # c)
                  => RoomMsg([inbox[c][k].new EXCEPT !.current_word = w]) = inbox[c][k]
        /\ \A t \in Tasks(c) :
              (t.op = "fetch" /\ t.pc = "setRoom" /\ t.data.current_player_id # c)
                  => [t.data EXCEPT !.current_word = w] = t.data

\* C19: joinRoom adds a player only to a room that exists and has
\* is_active = true at the moment of the insert.
C19_JoinOnlyActiveRoom ==
    [][Len(players') > Len(players) => (room.exists /\ room.is_active)]_vars

\* C20: the host_id of the room is the id of the players row of its
\* creator, the row with is_host = true.
C20_HostIdIsCreatorPlayer ==
    \A i \in 1..Len(players) : players[i].is_host => room.host_id = players[i].id

\* C21: every room in the database has exactly one player with
\* is_host = true, and no guest is ever in a room that has no host.
C21_RoomHasOneHost ==
    /\ room.exists => Cardinality({i \in 1..Len(players) : players[i].is_host}) = 1
    /\ (\E i \in 1..Len(players) : ~players[i].is_host)
          => \E i \in 1..Len(players) : players[i].is_host

\* C22: the end of the game is final: once the room is not active, no step
\* makes it active again or changes its round_number.
C22_GameEndedIsTerminal ==
    [][(room.exists /\ ~room.is_active)
          => (~room'.is_active /\ room'.round_number = room.round_number)]_vars

\* C23: when a player leaves the board, the player's row has
\* is_online = false after the step, and no other field of any players row
\* or of the room is changed by it.
C23_LeaveMarksOffline ==
    [][\A c \in Clients :
          handleLeaveGame(c) =>
              /\ room' = room
              /\ Len(players') = Len(players)
              /\ \A i \in 1..Len(players) :
                    players'[i] = IF players[i].id = c
                                  THEN [players[i] EXCEPT !.is_online = FALSE]
                                  ELSE players[i]]_vars

\* C24: no score is negative, no score goes down, and a score changes only
\* by +10 in the score update of a correct guess of that player.
C24_ScoreOnlyUpByBonus ==
    [][\A i \in 1..Len(players) :
          /\ players'[i].score >= 0
          /\ players'[i].score >= players[i].score
          /\ players'[i].score # players[i].score =>
                /\ players'[i].score = players[i].score + Bonus
                /\ players[i].id \in Clients
                /\ guessScore(players[i].id) \/ chatScore(players[i].id)]_vars

\* C25: once the update of the host's startGame is stored, every player of
\* the room, the host or not, eventually is on the playing screen.
C25_AllJoinedEnterPlaying ==
    \A c \in Clients :
        ((\E h \in Clients : ltask[h].op = "started") /\ IndexOfId(players, c) # 0)
            ~> (screen[c] = "playing")

\* C26: the word and the drawer of a round are assigned once: a step that
\* leaves round_number of the active room as it is leaves current_word and
\* current_player_id as they are.
C26_RoundAssignedOnce ==
    [][(room.exists /\ room.is_active /\ room'.is_active
          /\ room'.round_number = room.round_number)
         => /\ room'.current_word = room.current_word
            /\ room'.current_player_id = room.current_player_id]_vars

\* C27: the delete of draw_strokes that the end of round n calls removes no
\* row that the drawer of round n+1 has inserted in round n+1.
C27_ClearSparesNextRound ==
    [][\A c \in Clients : \A t \in Tasks(c) :
          (/\ t.op = "clear" /\ t.seen > 0
           /\ tasks' = [tasks EXCEPT ![c] = DelTask(@, t)]
           /\ strokes' = <<>>)
          => \A i \in 1..Len(strokes) : strokes[i].round # t.seen + 1]_vars

\* C28: the room a board holds never goes backwards: while the stored room
\* is not behind it, the completion of a fetchGameData does not replace it
\* with a room of a lower round_number.
C28_LocalRoomNeverBackwards ==
    [][\A c \in Clients :
          (/\ lroom[c].exists /\ room.round_number >= lroom[c].round_number
           /\ fetchSetRoom(c))
             => lroom'[c].round_number >= lroom[c].round_number]_vars
\* C29: a started game ends: the room eventually has is_active = false
\* (or the handlers and notifications in flight reach MaxTasks or MaxInbox,
\* where the model stops following the board).
C29_GameTerminates ==
    <>(\/ room.exists /\ ~room.is_active
       \/ \E c \in Clients : NTasks(c) >= MaxTasks \/ Len(inbox[c]) >= MaxInbox)
\* C30: once the last round's end has set is_active to false, every board
\* of the room eventually shows the final-scores screen.
C30_GameOverShown ==
    \A c \in Clients :
        (screen[c] = "playing" /\ room.exists /\ ~room.is_active) ~> GameOverScreen(c)

====
